---------------------------- MODULE Spec2Model ----------------------------
(***************************************************************************)
(* img2coe (src/main.rs): the colour codec (parse_color, FormattedColor),  *)
(* the Palette command and the Convert command.                            *)
(*                                                                         *)
(* A text (&str / String) is a sequence of bytes.  An ASCII byte is the    *)
(* one-character string of its character; the two bytes of the UTF-8       *)
(* encoding of U+00E9 are written "xC3" and "xA9".  A colour (Rgba<u8>) is *)
(* the tuple <<r, g, b, a>> of its components, each in 0..255.             *)
(***************************************************************************)
EXTENDS Integers, Sequences, FiniteSets, TLC

VARIABLES
    \* ---- the file system ----
    imageFile,     \* the <image> argument: whether it decodes, and its pixels
    tomlFile,      \* <image>.palette.toml on disk
    coeDisk,       \* <image>.coe on disk
    coeBefore,     \* <image>.coe as it was before any command ran
    \* ---- the running process (main) ----
    pc,            \* position in main
    command,       \* "none", "Palette" or "Convert"
    paletteArg,    \* Convert: the document the -p file holds
    img,           \* the decoded image (pixels in row-major order)
    colorSet,      \* Palette: `palette`, the HashSet of colours
    file,          \* Palette: what the BufWriter holds
    enum_i,        \* Palette: the enumerate() counter `i`
    palette_map,   \* Convert: the entries of the 'palette' table still to visit
    palette,       \* Convert: `palette`, the HashMap colour -> value
    coe_file,      \* Convert: the BufWriter's buffered bytes
    next_pixel,    \* index of the next pixel the loop visits (1-based)
    result,        \* how main ended: "running", "Ok", "panic" or an error
    \* ---- the codec harness ----
    text,          \* the input handed to parse_color
    parsed,        \* its result
    formatted      \* FormattedColor of the parsed colour

vars == <<imageFile, tomlFile, coeDisk, coeBefore, pc, command, paletteArg, img,
          colorSet, file, enum_i, palette_map, palette, coe_file, next_pixel, result,
          text, parsed, formatted>>

progVars == <<imageFile, tomlFile, coeDisk, coeBefore, pc, command, paletteArg,
              img, colorSet, file, enum_i, palette_map, palette, coe_file,
              next_pixel, result>>

codecVars == <<text, parsed, formatted>>

(***************************************************************************)
(* Bounds of the model.                                                    *)
(***************************************************************************)
\* An image has at most MaxPixels pixels.
MaxPixels == 3
\* A hand-written palette table has at most MaxEntries entries.
MaxEntries == 2
\* A codec input has at most MaxExtra bytes after its four slots.
MaxExtra == 1

(***************************************************************************)
(* Bytes and texts.                                                        *)
(***************************************************************************)
\* The bytes of the model in ascending byte value (0x20 ' ' .. 0xC3).
ByteOrder ==
    <<" ", "\"", "#", "+", "-", "0", "1", "2", "3", "4", "5", "6", "7", "8",
      "9", ";", "=", "A", "B", "C", "D", "E", "F", "a", "b", "c", "d", "e",
      "f", "g", "r", "xA9", "xC3">>

Ord(b) == CHOOSE i \in 1..Len(ByteOrder) : ByteOrder[i] = b

\* A UTF-8 continuation byte (0x80..0xBF): no character starts at it.
IsContinuation(b) == b = "xA9"

\* str::is_char_boundary(index), index counted from 0.
is_char_boundary(x, index) ==
    \/ index = 0
    \/ index = Len(x)
    \/ index < Len(x) /\ ~IsContinuation(x[index + 1])

\* str::starts_with
starts_with(x, prefix) ==
    Len(x) >= Len(prefix) /\ SubSeq(x, 1, Len(prefix)) = prefix

\* String's ordering: lexicographic by byte.
RECURSIVE StrLess(_, _)
StrLess(s, t) ==
    IF t = <<>> THEN FALSE
    ELSE IF s = <<>> THEN TRUE
    ELSE IF Head(s) = Head(t) THEN StrLess(Tail(s), Tail(t))
    ELSE Ord(Head(s)) < Ord(Head(t))

(***************************************************************************)
(* u8::from_str_radix(src, 16)                                             *)
(***************************************************************************)
LowerDigits == <<"0", "1", "2", "3", "4", "5", "6", "7", "8", "9",
                 "a", "b", "c", "d", "e", "f">>
UpperDigits == <<"0", "1", "2", "3", "4", "5", "6", "7", "8", "9",
                 "A", "B", "C", "D", "E", "F">>

\* char::to_digit(16): the digit's value, or -1 when the byte is no digit.
to_digit(b) ==
    IF \E i \in 1..16 : LowerDigits[i] = b
    THEN (CHOOSE i \in 1..16 : LowerDigits[i] = b) - 1
    ELSE IF \E i \in 1..16 : UpperDigits[i] = b
    THEN (CHOOSE i \in 1..16 : UpperDigits[i] = b) - 1
    ELSE -1

\* The accumulation loop over the digits: -1 is Err (InvalidDigit, or
\* PosOverflow once the value leaves u8).
RECURSIVE AccumulateDigits(_, _)
AccumulateDigits(digits, acc) ==
    IF digits = <<>> THEN acc
    ELSE IF to_digit(Head(digits)) < 0 THEN -1
    ELSE IF acc * 16 + to_digit(Head(digits)) > 255 THEN -1
    ELSE AccumulateDigits(Tail(digits), acc * 16 + to_digit(Head(digits)))

\* u8::from_str_radix(src, 16): the value, or -1 for Err.  An unsigned type
\* takes one leading '+' and no '-'; a lone sign and the empty string are Err.
from_str_radix(src) ==
    IF src = <<>> THEN -1
    ELSE IF Len(src) = 1 /\ Head(src) \in {"+", "-"} THEN -1
    ELSE IF Head(src) = "+" THEN AccumulateDigits(Tail(src), 0)
    ELSE AccumulateDigits(src, 0)

(***************************************************************************)
(* parse_color                                                             *)
(***************************************************************************)
None == [tag |-> "None"]
Some(v) == [tag |-> "Some", val |-> v]
Panic == [tag |-> "Panic"]

\* &x[from..=to] (byte offsets from 0) handed to from_str_radix: -2 when the
\* slice panics (an end of the range is no character boundary), else the
\* parse's value (-1 for Err).
Component(x, from, to) ==
    IF ~(is_char_boundary(x, from) /\ is_char_boundary(x, to + 1))
    THEN -2
    ELSE from_str_radix(SubSeq(x, from + 1, to + 1))

\* The four `let c = u8::from_str_radix(&x[i..=j], 16).ok()?;` in order: the
\* first slice that panics or parse that fails ends the function.
RECURSIVE Components(_, _, _)
Components(x, k, acc) ==
    IF k = 4 THEN Some(acc)
    ELSE LET c == Component(x, 2 * k, 2 * k + 1)
         IN  IF c = -2 THEN Panic
             ELSE IF c = -1 THEN None
             ELSE Components(x, k + 1, Append(acc, c))

parse_color(x) ==
    IF ~starts_with(x, <<"#">>) THEN None
    ELSE LET rest == SubSeq(x, 2, Len(x))
         IN  IF Len(rest) # 8 THEN None
             ELSE Components(rest, 0, <<>>)

(***************************************************************************)
(* FormattedColor                                                          *)
(***************************************************************************)
\* The base-16 digit values of n >= 0, most significant first (<<0>> for 0).
RECURSIVE DigitValues(_)
DigitValues(n) ==
    IF n < 16 THEN <<n>> ELSE Append(DigitValues(n \div 16), n % 16)

\* The digits of n >= 0 in base 16, lowercase, no leading zero.
HexDigits(n) ==
    [i \in 1..Len(DigitValues(n)) |-> LowerDigits[DigitValues(n)[i] + 1]]

\* s padded on the left with `fill` to `width` bytes (numbers align right).
RECURSIVE PadLeft(_, _, _)
PadLeft(s, width, fill) ==
    IF Len(s) >= width THEN s ELSE PadLeft(<<fill>> \o s, width, fill)

\* {c:2x} for a u8: width 2, the default fill (a space).
FormatComponent(c) == PadLeft(HexDigits(c), 2, " ")

\* <FormattedColor as Display>::fmt: "#{r:2x}{g:2x}{b:2x}{a:2x}"
FormattedColor(color) ==
    <<"#">> \o FormatComponent(color[1]) \o FormatComponent(color[2])
            \o FormatComponent(color[3]) \o FormatComponent(color[4])

(***************************************************************************)
(* {mapping:x} for an i64                                                  *)
(***************************************************************************)
\* LowerHex with {:X} written for {:x}: uppercase digits.
LowerHex_UpperCase(n) ==
    IF n >= 0
    THEN [k \in 1..Len(DigitValues(n)) |-> UpperDigits[DigitValues(n)[k] + 1]]
    ELSE LET dv == PadLeft(DigitValues(-n - 1), 16, 0)
         IN  [k \in 1..16 |-> UpperDigits[(15 - dv[k]) + 1]]

\* <i64 as LowerHex>::fmt: the digits of the value's 64-bit two's complement
\* (of 2^64 + n when n < 0: the sixteen digits of -n - 1, each inverted).
LowerHex(n) ==
    IF n >= 0 THEN HexDigits(n)
    ELSE LET dv == PadLeft(DigitValues(-n - 1), 16, 0)
         IN  [k \in 1..16 |-> LowerDigits[(15 - dv[k]) + 1]]

(***************************************************************************)
(* Files, documents and results.                                           *)
(***************************************************************************)
\* The templates (include_str! with {VERSION} replaced), each one opaque
\* chunk of text.  The palette template ends by opening the [palette] table.
coe_template == "coe_template.coe"
palette_template == "palette_template.toml"

\* <image>.coe: whether it exists, and its bytes.
NoFile == [exists |-> FALSE, bytes |-> <<>>]
FileOf(bytes) == [exists |-> TRUE, bytes |-> bytes]

\* <image>.palette.toml: whether it exists, the template text at its head and
\* its lines, each "<key>" = <index>\n held as [key, index].
NoToml == [exists |-> FALSE, head |-> <<>>, lines |-> <<>>]
TomlOf(head, lines) == [exists |-> TRUE, head |-> head, lines |-> lines]

\* A toml::Value of the kinds a palette table holds.
Integer(n) == [type |-> "Integer", int |-> n, str |-> <<>>]
String(s) == [type |-> "String", int |-> 0, str |-> s]

\* Value::as_integer
as_integer(value) ==
    IF value.type = "Integer" THEN Some(value.int) ELSE None

\* <toml::Value as Display>::fmt: a string shows quoted, an integer in decimal.
RECURSIVE Decimal(_)
Decimal(n) ==
    IF n < 0 THEN <<"-">> \o Decimal(-n)
    ELSE IF n < 10 THEN <<LowerDigits[n + 1]>>
    ELSE Append(Decimal(n \div 10), LowerDigits[(n % 10) + 1])

DisplayValue(value) ==
    IF value.type = "Integer" THEN Decimal(value.int)
    ELSE <<"\"">> \o value.str \o <<"\"">>

\* How main ended.
Running == [kind |-> "running", msg |-> "", arg |-> <<>>]
Ok == [kind |-> "Ok", msg |-> "", arg |-> <<>>]
Panicked == [kind |-> "panic", msg |-> "", arg |-> <<>>]
Err(msg, arg) == [kind |-> "Err", msg |-> msg, arg |-> arg]

\* The `?` of image::open, of File::open / read_to_string and of toml::from_str.
DecodeError == Err("image::open failed", <<>>)
PaletteFileError == Err("palette file: cannot be read or is not TOML", <<>>)

\* The four bail! of main.
MissingPaletteTable ==
    Err("expected to find 'palette' table on palette file", <<>>)
InvalidColor(key) == Err("invalid color: ", key)
InvalidValueType(value) == Err("value must be integer: ", DisplayValue(value))
UnmappedColor(formattedColor) ==
    Err("could not continue: palette has no mapping for color ",
        <<"\"">> \o formattedColor \o <<"\"">>)

\* The entries of a table in the order toml's Table (a BTreeMap<String, _>)
\* iterates them: ascending by key.
RECURSIVE SortEntries(_)
SortEntries(entries) ==
    IF entries = {} THEN <<>>
    ELSE LET first == CHOOSE e \in entries :
                          \A o \in entries \ {e} : StrLess(e.key, o.key)
         IN  <<first>> \o SortEntries(entries \ {first})

\* What toml::from_str::<Table> and table.get("palette") give for a palette
\* file: unreadable (no file, not UTF-8, not TOML), or a document whose
\* "palette" is absent, a scalar, or a table of entries.
Unreadable == [readable |-> FALSE, palette |-> "absent", entries |-> <<>>]
Document(kind, entries) ==
    [readable |-> TRUE, palette |-> kind, entries |-> entries]

\* The document of <image>.palette.toml as the Palette command leaves it: each
\* line "<key>" = <index> below the template's [palette] header is one entry.
WrittenDocument(f) ==
    IF ~f.exists THEN Unreadable
    ELSE IF \E k, l \in 1..Len(f.lines) : k # l /\ f.lines[k].key = f.lines[l].key
    THEN Unreadable   \* a duplicate key is a TOML error
    ELSE IF f.head # <<palette_template>> THEN Document("absent", <<>>)
    ELSE Document("table",
             SortEntries({[key |-> f.lines[k].key,
                           value |-> Integer(f.lines[k].index)] :
                          k \in 1..Len(f.lines)}))

(***************************************************************************)
(* Inputs.                                                                 *)
(***************************************************************************)
Black == <<0, 0, 0, 255>>
White == <<255, 255, 255, 255>>
Colors == {Black, <<17, 34, 51, 68>>, White}

RECURSIVE SeqsUpTo(_, _)
SeqsUpTo(S, n) ==
    IF n = 0 THEN {<<>>}
    ELSE LET shorter == SeqsUpTo(S, n - 1)
         IN  shorter \cup {Append(q, x) : q \in shorter, x \in S}

Images ==
    {[decodes |-> FALSE, pixels |-> <<>>]}
    \cup {[decodes |-> TRUE, pixels |-> px] :
              px \in SeqsUpTo(Colors, MaxPixels) \ {<<>>}}

Keys ==
    { <<"#", "0", "0", "0", "0", "0", "0", "f", "f">>,
      <<"#", "1", "1", "2", "2", "3", "3", "4", "4">>,
      <<"#", "F", "F", "F", "F", "F", "F", "F", "F">>,
      <<"#", "+", "f", "+", "f", "+", "f", "+", "f">>,
      <<"r", "e", "d">> }

Values == {Integer(0), Integer(26), Integer(-1), String(<<"1">>)}

Tables ==
    UNION {[K -> Values] :
               K \in {S \in SUBSET Keys : Cardinality(S) <= MaxEntries}}

\* The palette files a user may hand to Convert.
UserPalettes ==
    {Unreadable, Document("absent", <<>>), Document("scalar", <<>>)}
    \cup {Document("table",
              SortEntries({[key |-> k, value |-> t[k]] : k \in DOMAIN t})) :
          t \in Tables}

(***************************************************************************)
(* The codec harness: parse_color on an input text, then FormattedColor on *)
(* the colour it gave.                                                     *)
(***************************************************************************)
\* The slots an input is built from: two ASCII bytes, one character of two
\* bytes, or a single byte (which shifts what follows by one).
Slots ==
    { <<"0", "0">>, <<"0", "a">>, <<"f", "f">>, <<"1", "F">>, <<"+", "f">>,
      <<"-", "1">>, <<" ", "0">>, <<"g", "0">>, <<"xC3", "xA9">>, <<"0">> }

ExtraBytes == {"0", "f", "g"}

CodecInputs ==
    {p \o s1 \o s2 \o s3 \o s4 \o e :
        p \in {<<>>, <<"#">>}, s1 \in Slots, s2 \in Slots, s3 \in Slots,
        s4 \in Slots, e \in SeqsUpTo(ExtraBytes, MaxExtra)}

Pending == [tag |-> "Pending"]

ProgIdle ==
    /\ imageFile = [decodes |-> FALSE, pixels |-> <<>>]
    /\ tomlFile = NoToml
    /\ coeDisk = NoFile
    /\ coeBefore = NoFile
    /\ pc = "idle"
    /\ command = "none"
    /\ paletteArg = Unreadable
    /\ img = <<>>
    /\ colorSet = {}
    /\ file = [head |-> <<>>, lines |-> <<>>]
    /\ enum_i = 0
    /\ palette_map = <<>>
    /\ palette = <<>>
    /\ coe_file = <<>>
    /\ next_pixel = 1
    /\ result = Running

CodecIdle ==
    /\ text = <<>>
    /\ parsed = Pending
    /\ formatted = <<>>

InitCodec ==
    /\ ProgIdle
    /\ text \in CodecInputs
    /\ parsed = Pending
    /\ formatted = <<>>

ParseColor ==
    /\ parsed = Pending
    /\ parsed' = parse_color(text)
    /\ UNCHANGED <<text, formatted>>
    /\ UNCHANGED progVars

FormatColor ==
    /\ parsed.tag = "Some"
    /\ formatted = <<>>
    /\ formatted' = FormattedColor(parsed.val)
    /\ UNCHANGED <<text, parsed>>
    /\ UNCHANGED progVars

NextCodec == ParseColor \/ FormatColor

SpecCodec == InitCodec /\ [][NextCodec]_vars

(***************************************************************************)
(* main: one session on an image, a Palette run and then a Convert run with *)
(* the palette file it wrote, or a Convert run with a hand-written palette. *)
(* The output paths are writable: File::create and write do not fail.  The  *)
(* BufWriters hand their bytes to the disk when main drops them; no run of  *)
(* the model fills their 8 KiB.                                             *)
(***************************************************************************)
Init ==
    /\ imageFile \in Images
    /\ tomlFile = NoToml
    /\ coeDisk \in {NoFile, FileOf(<<"o", "l", "d">>)}
    /\ coeBefore = coeDisk
    /\ pc = "idle"
    /\ command = "none"
    /\ paletteArg = Unreadable
    /\ img = <<>>
    /\ colorSet = {}
    /\ file = [head |-> <<>>, lines |-> <<>>]
    /\ enum_i = 0
    /\ palette_map = <<>>
    /\ palette = <<>>
    /\ coe_file = <<>>
    /\ next_pixel = 1
    /\ result = Running
    /\ CodecIdle

\* ---- Commands::Palette ----
StartPalette ==
    /\ pc = "idle"
    /\ command' = "Palette"
    /\ pc' = "p_open"
    /\ UNCHANGED <<imageFile, tomlFile, coeDisk, coeBefore, paletteArg, img,
                   colorSet, file, enum_i, palette_map, palette, coe_file,
                   next_pixel, result>>
    /\ UNCHANGED codecVars

\* let img = ::image::open(&image)?; let mut palette = HashSet::new();
PaletteOpenImage ==
    /\ pc = "p_open"
    /\ IF imageFile.decodes
       THEN /\ img' = imageFile.pixels
            /\ colorSet' = {}
            /\ next_pixel' = 1
            /\ pc' = "p_pixels"
            /\ UNCHANGED result
       ELSE /\ result' = DecodeError
            /\ pc' = "exit"
            /\ UNCHANGED <<img, colorSet, next_pixel>>
    /\ UNCHANGED <<imageFile, tomlFile, coeDisk, coeBefore, command, paletteArg,
                   file, enum_i, palette_map, palette, coe_file>>
    /\ UNCHANGED codecVars

\* for (_, _, color) in img.pixels() { palette.insert(color); }
PaletteInsert ==
    /\ pc = "p_pixels"
    /\ next_pixel <= Len(img)
    /\ colorSet' = colorSet \cup {img[next_pixel]}
    /\ next_pixel' = next_pixel + 1
    /\ UNCHANGED <<imageFile, tomlFile, coeDisk, coeBefore, pc, command,
                   paletteArg, img, file, enum_i, palette_map, palette,
                   coe_file, result>>
    /\ UNCHANGED codecVars

\* File::create(image.with_extension("palette.toml")), file.write(template)
PaletteCreate ==
    /\ pc = "p_pixels"
    /\ next_pixel > Len(img)
    /\ tomlFile' = TomlOf(<<>>, <<>>)
    /\ file' = [head |-> <<palette_template>>, lines |-> <<>>]
    /\ enum_i' = 0
    /\ pc' = "p_entries"
    /\ UNCHANGED <<imageFile, coeDisk, coeBefore, command, paletteArg, img,
                   colorSet, palette_map, palette, coe_file, next_pixel, result>>
    /\ UNCHANGED codecVars

\* PaletteEntry with the indices counted from 1.
PaletteEntry_OneBased ==
    /\ pc = "p_entries"
    /\ \E color \in colorSet :
        /\ file' = [file EXCEPT !.lines =
                       Append(@, [key |-> FormattedColor(color),
                                  index |-> enum_i + 1])]
        /\ colorSet' = colorSet \ {color}
    /\ enum_i' = enum_i + 1
    /\ UNCHANGED <<imageFile, tomlFile, coeDisk, coeBefore, pc, command,
                   paletteArg, img, palette_map, palette, coe_file, next_pixel,
                   result>>
    /\ UNCHANGED codecVars

\* for (i, color) in palette.into_iter().enumerate(): the HashSet yields its
\* colours in an order of its own; each becomes the line "{color}" = {i}\n.
PaletteEntry ==
    /\ pc = "p_entries"
    /\ \E color \in colorSet :
        /\ file' = [file EXCEPT !.lines =
                       Append(@, [key |-> FormattedColor(color),
                                  index |-> enum_i])]
        /\ colorSet' = colorSet \ {color}
    /\ enum_i' = enum_i + 1
    /\ UNCHANGED <<imageFile, tomlFile, coeDisk, coeBefore, pc, command,
                   paletteArg, img, palette_map, palette, coe_file, next_pixel,
                   result>>
    /\ UNCHANGED codecVars

\* The iterator is exhausted: Ok(()), and the BufWriter is dropped.
PaletteFinish ==
    /\ pc = "p_entries"
    /\ colorSet = {}
    /\ tomlFile' = TomlOf(tomlFile.head \o file.head, tomlFile.lines \o file.lines)
    /\ file' = [head |-> <<>>, lines |-> <<>>]
    /\ result' = Ok
    /\ pc' = "exit"
    /\ UNCHANGED <<imageFile, coeDisk, coeBefore, command, paletteArg, img,
                   colorSet, enum_i, palette_map, palette, coe_file, next_pixel>>
    /\ UNCHANGED codecVars

\* ---- Commands::Convert ----
\* The process starts with the -p file holding `doc`.
BeginConvert(doc) ==
    /\ command' = "Convert"
    /\ paletteArg' = doc
    /\ pc' = "c_read"
    /\ result' = Running
    /\ UNCHANGED <<imageFile, tomlFile, coeDisk, coeBefore, img, colorSet,
                   file, enum_i, palette_map, palette, coe_file, next_pixel>>
    /\ UNCHANGED codecVars

\* convert <image> -p <a hand-written palette file>
StartConvert ==
    /\ pc = "idle"
    /\ \E doc \in UserPalettes : BeginConvert(doc)

\* convert <image> -p <image>.palette.toml, after a Palette run on <image>
StartConvertWritten ==
    /\ pc = "exit"
    /\ command = "Palette"
    /\ BeginConvert(WrittenDocument(tomlFile))

\* ConvertReadPalette with File::create(image.with_extension("coe")) and the
\* template's write moved ahead of the palette's parsing.
ConvertReadPalette_CreateFirst ==
    /\ pc = "c_read"
    /\ coeDisk' = FileOf(<<>>)
    /\ IF ~paletteArg.readable
       THEN /\ result' = PaletteFileError
            /\ pc' = "exit"
            /\ UNCHANGED <<palette_map, palette>>
       ELSE IF paletteArg.palette # "table"
       THEN /\ result' = MissingPaletteTable
            /\ pc' = "exit"
            /\ UNCHANGED <<palette_map, palette>>
       ELSE /\ palette_map' = paletteArg.entries
            /\ palette' = <<>>
            /\ pc' = "c_entries"
            /\ UNCHANGED result
    /\ UNCHANGED <<imageFile, tomlFile, coeBefore, command, paletteArg,
                   img, colorSet, file, enum_i, coe_file, next_pixel>>
    /\ UNCHANGED codecVars

\* File::open(palette)?, read_to_string?, toml::from_str::<Table>?, and
\* table.get("palette").and_then(Value::as_table) else bail!
ConvertReadPalette ==
    /\ pc = "c_read"
    /\ IF ~paletteArg.readable
       THEN /\ result' = PaletteFileError
            /\ pc' = "exit"
            /\ UNCHANGED <<palette_map, palette>>
       ELSE IF paletteArg.palette # "table"
       THEN /\ result' = MissingPaletteTable
            /\ pc' = "exit"
            /\ UNCHANGED <<palette_map, palette>>
       ELSE /\ palette_map' = paletteArg.entries
            /\ palette' = <<>>
            /\ pc' = "c_entries"
            /\ UNCHANGED result
    /\ UNCHANGED <<imageFile, tomlFile, coeDisk, coeBefore, command, paletteArg,
                   img, colorSet, file, enum_i, coe_file, next_pixel>>
    /\ UNCHANGED codecVars

\* HashMap::insert: a key already there gets the new value.
insert(map, key, value) ==
    [k \in DOMAIN map \cup {key} |-> IF k = key THEN value ELSE map[k]]

\* One turn of `for (key, value) in palette_map`.
ConvertEntry ==
    /\ pc = "c_entries"
    /\ palette_map # <<>>
    /\ LET key == Head(palette_map).key
           value == Head(palette_map).value
           color == parse_color(key)
       IN  IF color = Panic
           THEN /\ result' = Panicked
                /\ pc' = "exit"
                /\ UNCHANGED <<palette_map, palette>>
           ELSE IF color = None
           THEN /\ result' = InvalidColor(key)
                /\ pc' = "exit"
                /\ UNCHANGED <<palette_map, palette>>
           ELSE IF as_integer(value) = None
           THEN /\ result' = InvalidValueType(value)
                /\ pc' = "exit"
                /\ UNCHANGED <<palette_map, palette>>
           ELSE /\ palette' = insert(palette, color.val, as_integer(value).val)
                /\ palette_map' = Tail(palette_map)
                /\ UNCHANGED <<pc, result>>
    /\ UNCHANGED <<imageFile, tomlFile, coeDisk, coeBefore, command, paletteArg,
                   img, colorSet, file, enum_i, coe_file, next_pixel>>
    /\ UNCHANGED codecVars

\* File::create(image.with_extension("coe")), coe_file.write(template)
ConvertCreate ==
    /\ pc = "c_entries"
    /\ palette_map = <<>>
    /\ coeDisk' = FileOf(<<>>)
    /\ coe_file' = <<coe_template>>
    /\ pc' = "c_open"
    /\ UNCHANGED <<imageFile, tomlFile, coeBefore, command, paletteArg, img,
                   colorSet, file, enum_i, palette_map, palette, next_pixel,
                   result>>
    /\ UNCHANGED codecVars

\* let img = ::image::open(&image)?;  On the error main returns and coe_file
\* is dropped, which writes what it holds.
ConvertOpenImage ==
    /\ pc = "c_open"
    /\ IF imageFile.decodes
       THEN /\ img' = imageFile.pixels
            /\ next_pixel' = 1
            /\ pc' = "c_pixels"
            /\ UNCHANGED <<coeDisk, coe_file, result>>
       ELSE /\ result' = DecodeError
            /\ coeDisk' = FileOf(coeDisk.bytes \o coe_file)
            /\ coe_file' = <<>>
            /\ pc' = "exit"
            /\ UNCHANGED <<img, next_pixel>>
    /\ UNCHANGED <<imageFile, tomlFile, coeBefore, command, paletteArg,
                   colorSet, file, enum_i, palette_map, palette>>
    /\ UNCHANGED codecVars

\* ConvertPixel with `continue` for the bail!: a pixel the palette lacks is
\* passed over.
ConvertPixel_SkipMiss ==
    /\ pc = "c_pixels"
    /\ next_pixel <= Len(img)
    /\ LET color == img[next_pixel]
       IN  IF color \in DOMAIN palette
           THEN coe_file' = coe_file \o LowerHex(palette[color]) \o <<" ">>
           ELSE coe_file' = coe_file
    /\ next_pixel' = next_pixel + 1
    /\ UNCHANGED <<imageFile, tomlFile, coeDisk, coeBefore, pc, command,
                   paletteArg, img, colorSet, file, enum_i, palette_map,
                   palette, result>>
    /\ UNCHANGED codecVars

\* One turn of `for (_, _, color) in img.pixels()`: the mapping's {:x} and a
\* space, or bail! with the colour (and coe_file dropped).
ConvertPixel ==
    /\ pc = "c_pixels"
    /\ next_pixel <= Len(img)
    /\ LET color == img[next_pixel]
       IN  IF color \in DOMAIN palette
           THEN /\ coe_file' = coe_file \o LowerHex(palette[color]) \o <<" ">>
                /\ next_pixel' = next_pixel + 1
                /\ UNCHANGED <<coeDisk, pc, result>>
           ELSE /\ result' = UnmappedColor(FormattedColor(color))
                /\ coeDisk' = FileOf(coeDisk.bytes \o coe_file)
                /\ coe_file' = <<>>
                /\ pc' = "exit"
                /\ UNCHANGED next_pixel
    /\ UNCHANGED <<imageFile, tomlFile, coeBefore, command, paletteArg, img,
                   colorSet, file, enum_i, palette_map, palette>>
    /\ UNCHANGED codecVars

\* coe_file.write(";"), Ok(()), and coe_file is dropped.
ConvertFinish ==
    /\ pc = "c_pixels"
    /\ next_pixel > Len(img)
    /\ coeDisk' = FileOf(coeDisk.bytes \o coe_file \o <<";">>)
    /\ coe_file' = <<>>
    /\ result' = Ok
    /\ pc' = "exit"
    /\ UNCHANGED <<imageFile, tomlFile, coeBefore, command, paletteArg, img,
                   colorSet, file, enum_i, palette_map, palette, next_pixel>>
    /\ UNCHANGED codecVars

Next ==
    \/ StartPalette
    \/ PaletteOpenImage
    \/ PaletteInsert
    \/ PaletteCreate
    \/ PaletteEntry
    \/ PaletteFinish
    \/ StartConvert
    \/ StartConvertWritten
    \/ ConvertReadPalette
    \/ ConvertEntry
    \/ ConvertCreate
    \/ ConvertOpenImage
    \/ ConvertPixel
    \/ ConvertFinish

Spec == Init /\ [][Next]_vars
(***************************************************************************)
(* What the claims are stated with.                                        *)
(***************************************************************************)
LowerHexBytes == {LowerDigits[k] : k \in 1..16}
HexBytes == LowerHexBytes \cup {UpperDigits[k] : k \in 1..16}

\* "#RRGGBBAA": each component as two zero-padded lowercase hex digits.
HexColorText(color) ==
    <<"#">> \o
    <<LowerDigits[(color[1] \div 16) + 1], LowerDigits[(color[1] % 16) + 1],
      LowerDigits[(color[2] \div 16) + 1], LowerDigits[(color[2] % 16) + 1],
      LowerDigits[(color[3] \div 16) + 1], LowerDigits[(color[3] % 16) + 1],
      LowerDigits[(color[4] \div 16) + 1], LowerDigits[(color[4] % 16) + 1]>>

\* '#' followed by exactly 8 characters from [0-9a-f].
IsLowerHexColor(t) ==
    /\ Len(t) = 9
    /\ t[1] = "#"
    /\ \A k \in 2..9 : t[k] \in LowerHexBytes

\* The number of characters of a text (a continuation byte starts none).
CharCount(t) == Cardinality({k \in 1..Len(t) : ~IsContinuation(t[k])})

\* Not '#' followed by exactly 8 hexadecimal digits.
Malformed(t) ==
    \/ ~starts_with(t, <<"#">>)
    \/ CharCount(t) # 9
    \/ \E k \in 2..Len(t) : t[k] \notin HexBytes

\* t occurs in s.
Contains(s, t) ==
    \E k \in 1..(Len(s) - Len(t) + 1) : SubSeq(s, k, k + Len(t) - 1) = t

(***************************************************************************)
(* C1.  Round trip: for every s that is '#' and 8 characters of [0-9a-f],  *)
(* parse_color(s) gives a colour and FormattedColor of it is s again, nine *)
(* bytes long.                                                             *)
(***************************************************************************)
C1_RoundTrip ==
    IsLowerHexColor(text) =>
        /\ parsed # Pending => parsed.tag = "Some"
        /\ formatted # <<>> => formatted = text /\ Len(formatted) = 9

(***************************************************************************)
(* C2.  parse_color gives None, and never panics, on every text that does  *)
(* not start with '#', has not exactly 8 characters after it, or holds a   *)
(* character after the '#' that is no hexadecimal digit.                   *)
(***************************************************************************)
C2_RejectsMalformed ==
    (parsed # Pending /\ Malformed(text)) => parsed = None

(***************************************************************************)
(* C3.  When Convert meets a pixel whose colour the palette lacks, the run *)
(* fails and the message holds the colour's "#RRGGBBAA" text, zero-padded. *)
(***************************************************************************)
Aborted ==
    /\ command = "Convert"
    /\ pc = "exit"
    /\ result.kind = "Err"
    /\ result.msg = UnmappedColor(<<>>).msg

C3_UnmappedNamesColor ==
    Aborted => Contains(result.arg, HexColorText(img[next_pixel]))

(***************************************************************************)
(* C9.  In both commands the image is decoded before the output file is    *)
(* created or written: a run that ends in the image's DecodeError has left *)
(* the output files as they were.                                          *)
(***************************************************************************)
C9_DecodeBeforeWrite ==
    result = DecodeError => coeDisk = coeBefore /\ tomlFile = NoToml

(***************************************************************************)
(* C7.  Parsing the palette table succeeds exactly when every key is '#'   *)
(* and 8 hex digits and every value is an integer; a failure reports       *)
(* InvalidColor with a key that is no such string, or InvalidValueType     *)
(* with a value that is no integer and whose key is such a string.         *)
(***************************************************************************)
WellFormedKey(key) == ~Malformed(key)

ParsingTable ==
    /\ command = "Convert"
    /\ paletteArg.readable
    /\ paletteArg.palette = "table"

TableParsed == ParsingTable /\ pc = "c_entries" /\ palette_map = <<>>

TableRejected ==
    /\ ParsingTable
    /\ pc = "exit"
    /\ \/ result = Panicked
       \/ result.msg \in {InvalidColor(<<>>).msg, InvalidValueType(Integer(0)).msg}

EntriesOf(doc) == {doc.entries[k] : k \in 1..Len(doc.entries)}

C7_AllOrNothing ==
    /\ TableParsed =>
          \A e \in EntriesOf(paletteArg) :
              WellFormedKey(e.key) /\ e.value.type = "Integer"
    /\ TableRejected =>
          /\ result # Panicked
          /\ result.msg = InvalidColor(<<>>).msg =>
                \E e \in EntriesOf(paletteArg) :
                    ~WellFormedKey(e.key) /\ result = InvalidColor(e.key)
          /\ result.msg = InvalidValueType(Integer(0)).msg =>
                \E e \in EntriesOf(paletteArg) :
                    /\ WellFormedKey(e.key)
                    /\ e.value.type # "Integer"
                    /\ result = InvalidValueType(e.value)
    /\ TableRejected => img = <<>> /\ coe_file = <<>> /\ coeDisk = coeBefore

(***************************************************************************)
(* Reading a COE output back.                                              *)
(***************************************************************************)
\* The tokens of a text in which each token is followed by one space; a
\* last token with no space after it comes back marked and is no number.
RECURSIVE SplitTokens(_, _)
SplitTokens(body, cur) ==
    IF body = <<>>
    THEN IF cur = <<>> THEN <<>> ELSE <<Append(cur, "unterminated")>>
    ELSE IF Head(body) = " "
    THEN <<cur>> \o SplitTokens(Tail(body), <<>>)
    ELSE SplitTokens(Tail(body), Append(cur, Head(body)))

\* A lowercase hexadecimal numeral with no leading zero.
IsLowerHexNumeral(tok) ==
    /\ tok # <<>>
    /\ \A k \in 1..Len(tok) : tok[k] \in LowerHexBytes
    /\ Len(tok) > 1 => tok[1] # "0"

RECURSIVE NumeralValue(_, _, _)
NumeralValue(tok, acc, inverted) ==
    IF tok = <<>> THEN acc
    ELSE LET d == (CHOOSE k \in 1..16 : LowerDigits[k] = Head(tok)) - 1
         IN  NumeralValue(Tail(tok),
                          acc * 16 + (IF inverted THEN 15 - d ELSE d), inverted)

\* The 64-bit signed integer a lowercase hexadecimal numeral stands for.
TokenValue(tok) ==
    IF Len(tok) = 16 /\ tok[1] \in {"8", "9", "a", "b", "c", "d", "e", "f"}
    THEN -NumeralValue(tok, 0, TRUE) - 1
    ELSE NumeralValue(tok, 0, FALSE)

\* bytes is the header and then one token per pixel of px, the k-th token
\* the lowercase hexadecimal form of the code of the k-th pixel, each token
\* followed by one space.
HeaderAndTokens(bytes, px, codes) ==
    /\ bytes # <<>>
    /\ Head(bytes) = coe_template
    /\ LET tokens == SplitTokens(Tail(bytes), <<>>)
       IN  /\ Len(tokens) = Len(px)
           /\ \A k \in 1..Len(px) :
                 /\ IsLowerHexNumeral(tokens[k])
                 /\ TokenValue(tokens[k]) = codes[px[k]]

ConvertExit == command = "Convert" /\ pc = "exit"

\* Convert's palette parsing ended in an error.
PaletteFailure ==
    /\ ConvertExit
    /\ \/ result \in {PaletteFileError, MissingPaletteTable, Panicked}
       \/ result.msg \in {InvalidColor(<<>>).msg, InvalidValueType(Integer(0)).msg}

(***************************************************************************)
(* C4.  When the palette has an entry for each colour of the image,        *)
(* Convert succeeds and the output is the header, then one token per pixel *)
(* in row-major order, the k-th the lowercase hexadecimal form of the code *)
(* of the k-th pixel and each followed by one space, then one ';' as the    *)
(* last byte.                                                              *)
(***************************************************************************)
C4_ConversionLayout ==
    ( /\ ConvertExit
      /\ ~PaletteFailure
      /\ imageFile.decodes
      /\ \A k \in 1..Len(imageFile.pixels) :
            imageFile.pixels[k] \in DOMAIN palette )
    => /\ result = Ok
       /\ coe_file = <<>>
       /\ coeDisk.exists
       /\ Len(coeDisk.bytes) >= 2
       /\ coeDisk.bytes[Len(coeDisk.bytes)] = ";"
       /\ Cardinality({k \in 1..Len(coeDisk.bytes) : coeDisk.bytes[k] = ";"}) = 1
       /\ HeaderAndTokens(SubSeq(coeDisk.bytes, 1, Len(coeDisk.bytes) - 1),
                          imageFile.pixels, palette)

\* A conversion that ended well on two pixels of different codes, one of them
\* with a code above 15.
C4_Witness ==
    /\ ConvertExit
    /\ result = Ok
    /\ Len(img) >= 2
    /\ palette[img[1]] = 26
    /\ palette[img[2]] = 0

(***************************************************************************)
(* C5.  For an image of exactly N distinct colours the Palette command     *)
(* writes the header and N entry lines; each distinct colour is the key of *)
(* exactly one line, and the indices are exactly 0..N-1; a 1x1 image of    *)
(* colour #11223344 gives the one entry "#11223344" = 0.                   *)
(***************************************************************************)
DistinctColors(image) == {image.pixels[k] : k \in 1..Len(image.pixels)}

PaletteWritten == tomlFile.exists /\ file.head = <<>>

C5_PaletteBijection ==
    PaletteWritten =>
        LET colors == DistinctColors(imageFile)
            lines == tomlFile.lines
        IN  /\ tomlFile.head = <<palette_template>>
            /\ Len(lines) = Cardinality(colors)
            /\ \A c \in colors :
                  Cardinality({k \in 1..Len(lines) :
                                   lines[k].key = FormattedColor(c)}) = 1
            /\ \A k, l \in 1..Len(lines) : k # l => lines[k].key # lines[l].key
            /\ {lines[k].index : k \in 1..Len(lines)} = 0..(Cardinality(colors) - 1)
            /\ imageFile.pixels = <<<<17, 34, 51, 68>>>> =>
                  lines = <<[key |-> <<"#", "1", "1", "2", "2", "3", "3", "4", "4">>,
                             index |-> 0]>>

\* A palette written for an image in which a colour repeats beside another.
C5_Witness ==
    /\ PaletteWritten
    /\ Len(imageFile.pixels) = 3
    /\ Cardinality(DistinctColors(imageFile)) = 2
    /\ Len(tomlFile.lines) = 2

(***************************************************************************)
(* C6.  When Convert's palette parsing fails (no 'palette' table, an       *)
(* invalid colour, a value that is no integer), the run ends in that error *)
(* with the .coe path as it was: not created, not truncated, no byte       *)
(* written.                                                                *)
(***************************************************************************)
C6_NoCoeOnPaletteFailure ==
    /\ PaletteFailure => coeDisk = coeBefore /\ coe_file = <<>>
    /\ (command = "Convert" /\ pc \in {"c_read", "c_entries"}) =>
          coeDisk = coeBefore /\ coe_file = <<>>

\* A value that is no integer ended the run, beside a .coe from before.
C6_Witness ==
    /\ PaletteFailure
    /\ result.msg = InvalidValueType(Integer(0)).msg
    /\ coeBefore.exists
    /\ coeDisk = coeBefore

(***************************************************************************)
(* C8.  If the k-th pixel (from 0) is the first whose colour the palette   *)
(* lacks, Convert stops there: the file holds the header and exactly the k *)
(* tokens of the pixels before it, no later token and no ';'.  The ';' is  *)
(* written only once every pixel was looked up with success.  Terminated   *)
(* and Aborted exclude each other and both are final.                      *)
(***************************************************************************)
Terminated == ConvertExit /\ result = Ok

Misses == {k \in 1..Len(img) : img[k] \notin DOMAIN palette}

FirstMiss == CHOOSE k \in Misses : \A m \in Misses : k <= m

C8_AbortOnFirstMiss ==
    /\ (command = "Convert" /\ pc = "c_pixels") =>
          /\ \A k \in 1..(next_pixel - 1) : k \notin Misses
          /\ ";" \notin {coe_file[k] : k \in 1..Len(coe_file)}
          /\ HeaderAndTokens(coe_file, SubSeq(img, 1, next_pixel - 1), palette)
    /\ Aborted =>
          /\ Misses # {}
          /\ next_pixel = FirstMiss
          /\ HeaderAndTokens(coeDisk.bytes, SubSeq(img, 1, FirstMiss - 1), palette)
          /\ coe_file = <<>>
          /\ ~ENABLED Next
    /\ (ConvertExit /\ ";" \in {coeDisk.bytes[k] : k \in 1..Len(coeDisk.bytes)}) =>
          /\ Terminated
          /\ Misses = {}
          /\ next_pixel = Len(img) + 1
    /\ Terminated => ~Aborted /\ ~ENABLED Next

\* An abort at the third pixel, the two tokens before it on disk.
C8_Witness ==
    /\ Aborted
    /\ next_pixel = 3
    /\ Len(coeDisk.bytes) >= 5

(***************************************************************************)
(* C10.  Palette on an image and then Convert on the same image with the   *)
(* palette file Palette wrote succeeds: every written key parses back to   *)
(* its colour, no InvalidColor or UnmappedColor occurs, and each token is  *)
(* the hex form of the index Palette gave the pixel's colour.              *)
(***************************************************************************)
\* The index the written palette file gives a colour.
WrittenIndex ==
    [c \in DistinctColors(imageFile) |->
        LET k == CHOOSE l \in 1..Len(tomlFile.lines) :
                     tomlFile.lines[l].key = FormattedColor(c)
        IN  tomlFile.lines[k].index]

C10_PaletteThenConvert ==
    (ConvertExit /\ tomlFile.exists) =>
        /\ \A k \in 1..Len(tomlFile.lines) :
              \E c \in DistinctColors(imageFile) :
                  parse_color(tomlFile.lines[k].key) = Some(c)
        /\ result = Ok
        /\ HeaderAndTokens(SubSeq(coeDisk.bytes, 1, Len(coeDisk.bytes) - 1),
                           imageFile.pixels, WrittenIndex)

=============================================================================
